---- MODULE Spec2Model ----
(***************************************************************************)
(* MTTD / MTTR dashboard (src/app.py).                                     *)
(*                                                                         *)
(* The script is re-executed from the top on every interaction: a file is  *)
(* uploaded, the month or the priority selection changes, the file is      *)
(* removed.  One pass loads the sheet, derives Month-Year, Final MTD and   *)
(* Final MTR, filters, aggregates, shows the tabs and builds the workbook.  *)
(*                                                                         *)
(* Values                                                                  *)
(*   timestamp   <<t>>, t seconds since TimeOrigin; <<>> is NaT            *)
(*   metric      <<n, d>>, the rational n/d minutes in lowest terms;       *)
(*               <<>> is NaN (None in a float column)                      *)
(*   text        a sequence of one-character strings; an empty cell is     *)
(*               NaNCell                                                   *)
(*   Month-Year  [b |-> "Jan", Y |-> 2025] for the label "Jan-2025";       *)
(*               NaNLabel for a missing label                              *)
(*                                                                         *)
(* uploaded_file is <<>> (no file) or <<sheet>>, the sheet being the rows   *)
(* read by pd.read_excel with their date cells already coerced (lines       *)
(* 13-18).  raised is "none" or the exception that ended the pass; the      *)
(* variables assigned before it keep what the pass gave them.  Minutes are  *)
(* exact rationals: the rounding of floats is not modelled, and a column    *)
(* of None aggregates like a float column of NaN.                           *)
(***************************************************************************)
EXTENDS Integers, Sequences, FiniteSets, TLC

VARIABLES
    row, applied, final_mtd, final_mtr,            \* one df.apply step
    observed,                                      \* groupby's default for categoricals
    uploaded_file, event, raised,
    df, months, priorities, selected_months, selected_priorities,
    filtered_df, mtd_avg, mtr_avg, mtd_pivot, mtr_pivot, shown_df,
    mtd_summary_full, mtr_summary_full, output

calcVars == <<row, applied, final_mtd, final_mtr>>
passVars == <<df, months, priorities, filtered_df, mtd_avg, mtr_avg, mtd_pivot,
              mtr_pivot, shown_df, mtd_summary_full, mtr_summary_full, output, raised>>
dashVars == <<observed, uploaded_file, event, selected_months, selected_priorities>>
vars == <<calcVars, dashVars, passVars>>

----------------------------------------------------------------------------
(* Missing values *)

NaT == <<>>
NaN == <<>>
NaNCell == <<"NaN">>
NaNLabel == [b |-> "NaN", Y |-> 0]
NaNPriority == "NaN"

notnull(x) == x # <<>>

----------------------------------------------------------------------------
(* Exact arithmetic on minutes *)

Abs(n) == IF n < 0 THEN -n ELSE n

RECURSIVE Gcd(_, _)
Gcd(a, b) == IF b = 0 THEN a ELSE Gcd(b, a % b)

Rat(n, d) == LET g == Gcd(Abs(n), d) IN <<n \div g, d \div g>>

Lcm(a, b) == (a \div Gcd(a, b)) * b

RatAdd(x, y) ==
    LET l == Lcm(x[2], y[2])
    IN  Rat(x[1] * (l \div x[2]) + y[1] * (l \div y[2]), l)

RatDiv(x, k) == Rat(x[1], x[2] * k)

RECURSIVE RatSum(_)
RatSum(s) == IF s = <<>> THEN Rat(0, 1) ELSE RatAdd(Head(s), RatSum(Tail(s)))

----------------------------------------------------------------------------
(* str(x).strip().lower() *)

UpperCase == <<"A","B","C","D","E","F","G","H","I","J","K","L","M",
               "N","O","P","Q","R","S","T","U","V","W","X","Y","Z">>
LowerCase == <<"a","b","c","d","e","f","g","h","i","j","k","l","m",
               "n","o","p","q","r","s","t","u","v","w","x","y","z">>
Whitespace == {" ", "\t", "\n", "\r"}

str(x) == IF x = NaNCell THEN <<"n", "a", "n">> ELSE x

RECURSIVE lstrip(_)
lstrip(s) == IF s # <<>> /\ Head(s) \in Whitespace THEN lstrip(Tail(s)) ELSE s

RECURSIVE rstrip(_)
rstrip(s) ==
    IF s # <<>> /\ s[Len(s)] \in Whitespace THEN rstrip(SubSeq(s, 1, Len(s) - 1)) ELSE s

strip(s) == rstrip(lstrip(s))

lowerChar(c) ==
    IF \E i \in 1..26 : UpperCase[i] = c
    THEN LowerCase[CHOOSE i \in 1..26 : UpperCase[i] = c]
    ELSE c

lower(s) == [i \in 1..Len(s) |-> lowerChar(s[i])]

internal_call_logging ==
    <<"i","n","t","e","r","n","a","l"," ","c","a","l","l"," ",
      "l","o","g","g","i","n","g">>
web == <<"w","e","b">>

----------------------------------------------------------------------------
(* The metric calculator *)

total_seconds(later, earlier) == later[1] - earlier[1]

calc_mtd_no_strip(r) ==
    IF lower(str(r.CaseOrigin)) \in {internal_call_logging, web}
    THEN Rat(0, 1)
    ELSE IF notnull(r.Responded) /\ notnull(r.Opened)
         THEN Rat(total_seconds(r.Responded, r.Opened), 60)
         ELSE NaN

calc_mtd_floor(r) ==
    IF lower(strip(str(r.CaseOrigin))) \in {internal_call_logging, web}
    THEN Rat(0, 1)
    ELSE IF notnull(r.Responded) /\ notnull(r.Opened)
         THEN Rat(total_seconds(r.Responded, r.Opened) \div 60, 1)
         ELSE NaN

calc_mtd(r) ==
    IF lower(strip(str(r.CaseOrigin))) \in {internal_call_logging, web}
    THEN Rat(0, 1)
    ELSE IF notnull(r.Responded) /\ notnull(r.Opened)
         THEN Rat(total_seconds(r.Responded, r.Opened), 60)
         ELSE NaN

calc_mtr_from_responded(r) ==
    IF notnull(r.Responded) /\ notnull(r.Opened)
    THEN Rat(total_seconds(r.Responded, r.Opened), 60)
    ELSE NaN

calc_mtr(r) ==
    IF notnull(r.Restored) /\ notnull(r.Opened)
    THEN Rat(total_seconds(r.Restored, r.Opened), 60)
    ELSE NaN

----------------------------------------------------------------------------
(* Month-Year: strftime('%b-%Y') and pd.to_datetime(x, format='%b-%Y') *)

TimeOrigin == [Y |-> 2024, m |-> 12]          \* second 0 is 2024-12-01 00:00:00

MonthAbbr == <<"Jan","Feb","Mar","Apr","May","Jun","Jul","Aug","Sep","Oct","Nov","Dec">>

IsLeap(Y) == (Y % 4 = 0 /\ Y % 100 # 0) \/ Y % 400 = 0

DaysIn(Y, m) ==
    IF m = 2 THEN (IF IsLeap(Y) THEN 29 ELSE 28)
    ELSE IF m \in {4, 6, 9, 11} THEN 30 ELSE 31

SecondsIn(Y, m) == DaysIn(Y, m) * 86400

NextMonth(ym) == IF ym.m = 12 THEN [Y |-> ym.Y + 1, m |-> 1] ELSE [Y |-> ym.Y, m |-> ym.m + 1]

RECURSIVE MonthAt(_, _)
MonthAt(t, ym) ==
    IF t < SecondsIn(ym.Y, ym.m) THEN ym ELSE MonthAt(t - SecondsIn(ym.Y, ym.m), NextMonth(ym))

strftime_bY_nat_as_origin(ts) ==
    LET ym == MonthAt(IF ts = NaT THEN 0 ELSE ts[1], TimeOrigin)
    IN  [b |-> MonthAbbr[ym.m], Y |-> ym.Y]

strftime_bY(ts) ==
    IF ts = NaT THEN NaNLabel
    ELSE LET ym == MonthAt(ts[1], TimeOrigin) IN [b |-> MonthAbbr[ym.m], Y |-> ym.Y]

RECURSIVE SecondsUntil(_, _)
SecondsUntil(ym, from) ==
    IF from = ym THEN 0 ELSE SecondsIn(from.Y, from.m) + SecondsUntil(ym, NextMonth(from))

to_datetime_bY(x) ==
    <<SecondsUntil([Y |-> x.Y, m |-> CHOOSE i \in 1..12 : MonthAbbr[i] = x.b], TimeOrigin)>>

(* The order of the labels as strings: "Dec-2025" < "Jan-2025". *)
LexKey(x) ==
    LET Alphabetical == <<"Apr","Aug","Dec","Feb","Jan","Jul","Jun","Mar","May","Nov","Oct","Sep">>
    IN  <<CHOOSE i \in 1..12 : Alphabetical[i] = x.b, x.Y>>

----------------------------------------------------------------------------
(* Sorting: a stable sort of [k |-> key tuple, v |-> value] by k *)

RECURSIVE KeyLess(_, _)
KeyLess(a, b) ==
    IF a = <<>> \/ b = <<>> THEN FALSE
    ELSE IF Head(a) # Head(b) THEN Head(a) < Head(b)
    ELSE KeyLess(Tail(a), Tail(b))

RECURSIVE Insert(_, _)
Insert(e, s) ==
    IF s = <<>> THEN <<e>>
    ELSE IF ~KeyLess(Head(s).k, e.k) THEN <<e>> \o s
    ELSE <<Head(s)>> \o Insert(e, Tail(s))

RECURSIVE SortKeyed(_)
SortKeyed(s) == IF s = <<>> THEN <<>> ELSE Insert(Head(s), SortKeyed(Tail(s)))

Values(s) == [i \in 1..Len(s) |-> s[i].v]

Range(s) == {s[i] : i \in 1..Len(s)}

RECURSIVE unique(_)
unique(s) ==
    IF s = <<>> THEN <<>>
    ELSE LET init == unique(SubSeq(s, 1, Len(s) - 1))
         IN  IF s[Len(s)] \in Range(init) THEN init ELSE Append(init, s[Len(s)])

RECURSIVE Select(_, _)
Select(s, keep) ==
    IF s = <<>> THEN <<>>
    ELSE (IF Head(s) \in keep THEN <<Head(s)>> ELSE <<>>) \o Select(Tail(s), keep)

----------------------------------------------------------------------------
(* Lines 13-52: the table, its derived columns and the filter options *)

priority_order == <<"P1", "P2", "P3", "P4", "P5">>

PriorityRank(p) == CHOOSE i \in 1..5 : priority_order[i] = p

Categorical_keep_value(p) == p

Categorical(p) == IF p \in Range(priority_order) THEN p ELSE NaNPriority

LoadRow(f, i) ==
    [index      |-> i - 1,
     Opened     |-> f[i].Opened,
     Responded  |-> f[i].Responded,
     Restored   |-> f[i].Restored,
     CaseOrigin |-> f[i].CaseOrigin,
     Priority   |-> Categorical(f[i].Priority),
     MonthYear  |-> strftime_bY(f[i].Restored),
     FinalMTD   |-> calc_mtd(f[i]),
     FinalMTR   |-> calc_mtr(f[i])]

Load(f) == [i \in 1..Len(f) |-> LoadRow(f, i)]

Column(d, c) == [i \in 1..Len(d) |-> d[i][c]]

month_sort_key_lexical(x) == LexKey(x)

month_sort_key(x) == to_datetime_bY(x)

sorted_months(s) == Values(SortKeyed([i \in 1..Len(s) |-> [k |-> month_sort_key(s[i]), v |-> s[i]]]))

months_of(d) ==
    sorted_months(unique(Select(Column(d, "MonthYear"), Range(Column(d, "MonthYear")) \ {NaNLabel})))

priorities_of(d) == Select(priority_order, Range(Column(d, "Priority")))

----------------------------------------------------------------------------
(* Line 60: the filter *)

RECURSIVE SelectRows(_, _, _)
SelectRows(d, sm, sp) ==
    IF d = <<>> THEN <<>>
    ELSE (IF Head(d).MonthYear \in sm /\ Head(d).Priority \in sp THEN <<Head(d)>> ELSE <<>>)
         \o SelectRows(Tail(d), sm, sp)

RECURSIVE SelectRowsEither(_, _, _)
SelectRowsEither(d, sm, sp) ==
    IF d = <<>> THEN <<>>
    ELSE (IF Head(d).MonthYear \in sm \/ Head(d).Priority \in sp THEN <<Head(d)>> ELSE <<>>)
         \o SelectRowsEither(Tail(d), sm, sp)

apply_filters_either(d, sm, sp) == SelectRowsEither(d, sm, sp)

apply_filters(d, sm, sp) == SelectRows(d, sm, sp)

----------------------------------------------------------------------------
(* groupby(['Month-Year', 'Priority']).  Priority is categorical, so the    *)
(* groups depend on groupby's `observed` default, which the script leaves   *)
(* to the installed pandas: False before pandas 3 (every category of        *)
(* priority_order gets a group in each month present), True from pandas 3   *)
(* (only the pairs present).  Rows with a null key are dropped.  Group keys  *)
(* come out sorted, the labels as strings.                                  *)

GroupKeySet(d, obs) ==
    LET keyed == {i \in 1..Len(d) : d[i].MonthYear # NaNLabel /\ d[i].Priority # NaNPriority}
    IN  IF obs
        THEN {[MonthYear |-> d[i].MonthYear, Priority |-> d[i].Priority] : i \in keyed}
        ELSE {[MonthYear |-> d[i].MonthYear, Priority |-> p] : i \in keyed, p \in Range(priority_order)}

RECURSIVE SetToSeq(_)
SetToSeq(S) == IF S = {} THEN <<>> ELSE LET e == CHOOSE e \in S : TRUE IN <<e>> \o SetToSeq(S \ {e})

GroupKeys(d, obs) ==
    LET ks == SetToSeq(GroupKeySet(d, obs))
    IN  Values(SortKeyed([i \in 1..Len(ks) |->
            [k |-> LexKey(ks[i].MonthYear) \o <<PriorityRank(ks[i].Priority)>>, v |-> ks[i]]]))

RECURSIVE GroupValues(_, _, _)
GroupValues(d, g, metric) ==
    IF d = <<>> THEN <<>>
    ELSE (IF Head(d).MonthYear = g.MonthYear /\ Head(d).Priority = g.Priority
             /\ notnull(Head(d)[metric])
          THEN <<Head(d)[metric]>> ELSE <<>>)
         \o GroupValues(Tail(d), g, metric)

count(vs) == Len(vs)
sum(vs) == RatSum(vs)
mean(vs) == IF vs = <<>> THEN NaN ELSE RatDiv(RatSum(vs), Len(vs))

----------------------------------------------------------------------------
(* Lines 63-67: generate_avg_summary *)

generate_avg_summary(d, metric, obs) ==
    LET ks == GroupKeys(d, obs)
        summary == [i \in 1..Len(ks) |->
            [MonthYear |-> ks[i].MonthYear, Priority |-> ks[i].Priority,
             value |-> mean(GroupValues(d, ks[i], metric))]]
    IN  Values(SortKeyed([i \in 1..Len(summary) |->
            [k |-> month_sort_key(summary[i].MonthYear) \o <<PriorityRank(summary[i].Priority)>>,
             v |-> summary[i]]]))

(* Lines 77-78, 100-101: pivot(index='Month-Year', columns='Priority'), then *)
(* the rows put in the order of the parsed labels.                          *)
pivot(summary) ==
    LET idx  == unique(Column(summary, "MonthYear"))
        lex  == Values(SortKeyed([i \in 1..Len(idx) |-> [k |-> LexKey(idx[i]), v |-> idx[i]]]))
        cols == Select(priority_order, Range(Column(summary, "Priority")))
        cell(m, p) ==
            IF \E i \in 1..Len(summary) : summary[i].MonthYear = m /\ summary[i].Priority = p
            THEN summary[CHOOSE i \in 1..Len(summary) :
                            summary[i].MonthYear = m /\ summary[i].Priority = p].value
            ELSE NaN
        ordered == sorted_months(lex)
    IN  [i \in 1..Len(ordered) |->
            [MonthYear |-> ordered[i],
             cells |-> [p \in Range(cols) |-> cell(ordered[i], p)]]]

----------------------------------------------------------------------------
(* Lines 126-151: full_summary *)

AVGLabel == [b |-> "AVG", Y |-> 0]

Triad(c, s, a) == [COUNT |-> c, SUM |-> s, AVG |-> a]

absent_triad == Triad(Rat(0, 1), Rat(0, 1), Rat(0, 1))

group_triad(vs) == Triad(Rat(count(vs), 1), sum(vs), mean(vs))

month_rows(d, metric, obs) ==
    LET grouped == GroupKeys(d, obs)
        ms == sorted_months(unique(Column(grouped, "MonthYear")))
    IN  [i \in 1..Len(ms) |->
            [index |-> ms[i],
             cells |-> [p \in Range(priority_order) |->
                LET g == [MonthYear |-> ms[i], Priority |-> p]
                IN  IF g \in Range(grouped)
                    THEN group_triad(GroupValues(d, g, metric))
                    ELSE absent_triad]]]

column_mean_nan_as_zero(cs) ==
    IF cs = <<>> THEN NaN ELSE RatDiv(RatSum(Select(cs, Range(cs) \ {NaN})), Len(cs))

column_mean(cs) == mean(Select(cs, Range(cs) \ {NaN}))

avg_row(rows) ==
    [index |-> AVGLabel,
     cells |-> [p \in Range(priority_order) |->
        Triad(column_mean([i \in 1..Len(rows) |-> rows[i].cells[p].COUNT]),
              column_mean([i \in 1..Len(rows) |-> rows[i].cells[p].SUM]),
              column_mean([i \in 1..Len(rows) |-> rows[i].cells[p].AVG]))]]

(* pd.DataFrame([]) has no 'Month-Year' column: set_index raises KeyError. *)
full_summary_raises(d, obs) == GroupKeys(d, obs) = <<>>

full_summary(d, metric, obs) ==
    LET rows == month_rows(d, metric, obs) IN Append(rows, avg_row(rows))

----------------------------------------------------------------------------
(* Inputs *)

MaxRows == 2

Phone == <<"P","h","o","n","e">>

CaseOrigins ==
    { <<"W","e","b">>, <<" ","w","e","b"," ">>, <<"W","E","B","\n">>,
      <<"I","n","t","e","r","n","a","l"," ","C","a","l","l"," ","L","o","g","g","i","n","g">>,
      <<"\t">> \o internal_call_logging,
      Phone, <<"w","e","b"," ","s","i","t","e">>, <<"w","e"," ","b">>, NaNCell }

RawPriorities == {"P1", "P3", "High"}

(* 2024-12-01 00:00:00, 00:00:30, 00:01:30 and 01:00:00; 2025-01-01 00:30:00; *)
(* 2025-12-01 00:00:45                                                        *)
CalcTimes == {NaT, <<0>>, <<30>>, <<90>>, <<3600>>}
CalcRows ==
    [Opened : CalcTimes, Responded : CalcTimes, Restored : CalcTimes,
     CaseOrigin : CaseOrigins, Priority : RawPriorities]

Dec2024 == <<3600>>
Jan2025 == <<2680200>>
Dec2025 == <<31536045>>

SheetRow(opened, responded, restored, origin, priority) ==
    [Opened |-> opened, Responded |-> responded, Restored |-> restored,
     CaseOrigin |-> origin, Priority |-> priority]

SheetRows ==
    { SheetRow(<<0>>,    <<90>>,   Jan2025, Phone, "P1"),
      SheetRow(<<0>>,    <<30>>,   Dec2025, Phone, "P1"),
      SheetRow(<<0>>,    <<90>>,   Dec2025, Phone, "P1"),
      SheetRow(<<3630>>, <<3600>>, Dec2024, Phone, "P1"),
      SheetRow(NaT,      <<90>>,   Jan2025, <<" ","W","e","b">>, "P3"),
      SheetRow(<<0>>,    NaT,      NaT,     Phone, "P1"),
      SheetRow(<<0>>,    <<90>>,   Jan2025, Phone, "High") }

Sheets == UNION {[1..n -> SheetRows] : n \in 1..MaxRows}

NoRow == [Opened |-> NaT, Responded |-> NaT, Restored |-> NaT,
          CaseOrigin |-> NaNCell, Priority |-> NaNPriority]

----------------------------------------------------------------------------
(* One pass of the script over the uploaded sheet f (lines 12-168) *)

NothingRendered ==
    /\ df' = <<>> /\ months' = <<>> /\ priorities' = <<>>
    /\ filtered_df' = <<>> /\ mtd_avg' = <<>> /\ mtr_avg' = <<>>
    /\ mtd_pivot' = <<>> /\ mtr_pivot' = <<>> /\ shown_df' = <<>>
    /\ mtd_summary_full' = <<>> /\ mtr_summary_full' = <<>>
    /\ output' = <<>> /\ raised' = "none"

Pass(f, sm, sp) ==
    LET d  == Load(f)
        fd == apply_filters(d, sm, sp)
    IN  /\ df' = d
        /\ months' = months_of(d)
        /\ priorities' = priorities_of(d)
        /\ selected_months' = sm
        /\ selected_priorities' = sp
        /\ filtered_df' = fd
        /\ mtd_avg' = generate_avg_summary(fd, "FinalMTD", observed)
        /\ mtr_avg' = generate_avg_summary(fd, "FinalMTR", observed)
        /\ mtd_pivot' = pivot(mtd_avg')
        /\ mtr_pivot' = pivot(mtr_avg')
        /\ shown_df' = fd
        /\ IF full_summary_raises(fd, observed)
           THEN /\ raised' = "KeyError"
                /\ mtd_summary_full' = <<>>
                /\ mtr_summary_full' = <<>>
                /\ output' = <<>>
           ELSE /\ raised' = "none"
                /\ mtd_summary_full' = full_summary(fd, "FinalMTD", observed)
                /\ mtr_summary_full' = full_summary(fd, "FinalMTR", observed)
                /\ output' = <<[MainData    |-> fd,
                                MTTDSummary |-> mtd_summary_full',
                                MTTRSummary |-> mtr_summary_full']>>

----------------------------------------------------------------------------
(* The dashboard *)

Init ==
    /\ observed \in BOOLEAN
    /\ uploaded_file = <<>> /\ event = "start"
    /\ selected_months = {} /\ selected_priorities = {}
    /\ df = <<>> /\ months = <<>> /\ priorities = <<>>
    /\ filtered_df = <<>> /\ mtd_avg = <<>> /\ mtr_avg = <<>>
    /\ mtd_pivot = <<>> /\ mtr_pivot = <<>> /\ shown_df = <<>>
    /\ mtd_summary_full = <<>> /\ mtr_summary_full = <<>>
    /\ output = <<>> /\ raised = "none"
    /\ row = NoRow /\ applied = FALSE /\ final_mtd = NaN /\ final_mtr = NaN

(* A sheet is uploaded: both multiselects start at their defaults, all options. *)
Upload ==
    /\ uploaded_file = <<>>
    /\ \E f \in Sheets :
        /\ uploaded_file' = <<f>>
        /\ Pass(f, Range(months_of(Load(f))), Range(priorities_of(Load(f))))
    /\ event' = "upload"
    /\ UNCHANGED <<calcVars, observed>>

Toggle(S, x) == IF x \in S THEN S \ {x} ELSE S \cup {x}

(* One change of a multiselect: an option is added, a chip is removed, or the *)
(* selection is cleared.                                                      *)
ChangeMonths ==
    /\ uploaded_file # <<>>
    /\ \E sm \in {Toggle(selected_months, m) : m \in Range(months)} \cup {{}} :
        /\ sm # selected_months
        /\ Pass(uploaded_file[1], sm, selected_priorities)
    /\ event' = "months"
    /\ UNCHANGED <<calcVars, observed, uploaded_file>>

ChangePriorities ==
    /\ uploaded_file # <<>>
    /\ \E sp \in {Toggle(selected_priorities, p) : p \in Range(priorities)} \cup {{}} :
        /\ sp # selected_priorities
        /\ Pass(uploaded_file[1], selected_months, sp)
    /\ event' = "priorities"
    /\ UNCHANGED <<calcVars, observed, uploaded_file>>

(* The file is removed from the uploader: `if uploaded_file:` skips everything. *)
RemoveFile ==
    /\ uploaded_file # <<>>
    /\ uploaded_file' = <<>>
    /\ event' = "remove"
    /\ selected_months' = {} /\ selected_priorities' = {}
    /\ NothingRendered
    /\ UNCHANGED <<calcVars, observed>>

Next == Upload \/ ChangeMonths \/ ChangePriorities \/ RemoveFile

Spec == Init /\ [][Next]_vars

----------------------------------------------------------------------------
(* Lines 47-48: df.apply(calc_mtd, axis=1) and df.apply(calc_mtr, axis=1) on *)
(* one row                                                                   *)

InitCalc ==
    /\ row \in CalcRows /\ applied = FALSE /\ final_mtd = NaN /\ final_mtr = NaN
    /\ observed = TRUE
    /\ uploaded_file = <<>> /\ event = "start"
    /\ selected_months = {} /\ selected_priorities = {}
    /\ df = <<>> /\ months = <<>> /\ priorities = <<>>
    /\ filtered_df = <<>> /\ mtd_avg = <<>> /\ mtr_avg = <<>>
    /\ mtd_pivot = <<>> /\ mtr_pivot = <<>> /\ shown_df = <<>>
    /\ mtd_summary_full = <<>> /\ mtr_summary_full = <<>>
    /\ output = <<>> /\ raised = "none"

Apply ==
    /\ ~applied
    /\ applied' = TRUE
    /\ final_mtd' = calc_mtd(row)
    /\ final_mtr' = calc_mtr(row)
    /\ UNCHANGED <<row, dashVars, passVars>>

NextCalc == Apply

SpecCalc == InitCalc /\ [][NextCalc]_vars

----------------------------------------------------------------------------
(* Properties of the metric calculator, checked under SpecCalc *)

(* The spellings among CaseOrigins that are "web" or "internal call logging" *)
(* once trimmed and lower-cased.                                             *)
ExemptSpellings ==
    { <<"W","e","b">>, <<" ","w","e","b"," ">>, <<"W","E","B","\n">>,
      <<"I","n","t","e","r","n","a","l"," ","C","a","l","l"," ","L","o","g","g","i","n","g">>,
      <<"\t","i","n","t","e","r","n","a","l"," ","c","a","l","l"," ",
        "l","o","g","g","i","n","g">> }

(* C1: a record whose case origin, trimmed and lower-cased, is "internal call *)
(* logging" or "web" has MTTD 0, whatever its other fields: also with a        *)
(* missing opened or responded timestamp, and with responded before opened.    *)
C1_ExemptOriginIsZero ==
    (applied /\ row.CaseOrigin \in ExemptSpellings) => final_mtd = <<0, 1>>

C1_Witness ==
    /\ applied
    /\ row.CaseOrigin = <<" ","w","e","b"," ">>
    /\ row.Opened = <<90>> /\ row.Responded = <<0>>
    /\ final_mtd = <<0, 1>>

(* C2: for a record whose case origin is not exempt, MTTD is exactly          *)
(* (responded - opened) / 60 minutes when both timestamps are present, with    *)
(* its fraction and its sign, and is null when either is missing.              *)
C2_MttdIsExactDifference ==
    (applied /\ row.CaseOrigin \notin ExemptSpellings) =>
        IF row.Opened # NaT /\ row.Responded # NaT
        THEN /\ final_mtd # NaN
             /\ final_mtd[2] > 0
             /\ final_mtd[1] * 60 = (row.Responded[1] - row.Opened[1]) * final_mtd[2]
        ELSE final_mtd = NaN

C2_Witness ==
    /\ applied
    /\ row.CaseOrigin = Phone
    /\ row.Opened = <<30>> /\ row.Responded = <<0>>
    /\ final_mtd = <<-1, 2>>

(* C3: MTTR is (restored - opened) / 60 minutes when both timestamps are      *)
(* present and null when either is missing; rows that differ only in case      *)
(* origin, priority or responded timestamp get the same MTTR.                  *)
C3_MttrIsRestoredMinusOpened ==
    applied =>
        /\ IF row.Opened # NaT /\ row.Restored # NaT
           THEN /\ final_mtr # NaN
                /\ final_mtr[2] > 0
                /\ final_mtr[1] * 60 = (row.Restored[1] - row.Opened[1]) * final_mtr[2]
           ELSE final_mtr = NaN
        /\ \A o \in CaseOrigins, p \in RawPriorities, t \in CalcTimes :
              calc_mtr([row EXCEPT !.CaseOrigin = o, !.Priority = p, !.Responded = t])
                 = final_mtr

C3_Witness ==
    /\ applied
    /\ row.Opened = <<0>> /\ row.Restored = <<90>> /\ row.Responded = NaT
    /\ row.CaseOrigin = <<"W","e","b">>
    /\ final_mtr = <<3, 2>>

----------------------------------------------------------------------------
(* Properties of the dashboard, checked under Spec *)

Uploaded == uploaded_file # <<>>
Sheet == uploaded_file[1]
ValidPriorities == {"P1", "P2", "P3", "P4", "P5"}
Indexes(d) == {d[i].index : i \in 1..Len(d)}
Rendered == Uploaded /\ raised = "none"

Jan2025Label == [b |-> "Jan", Y |-> 2025]
Dec2025Label == [b |-> "Dec", Y |-> 2025]

(* C4: the filtered records are exactly the records of the upload whose month *)
(* bucket is among the selected months and whose priority is among the         *)
(* selected priorities, in the order of the upload; on the first pass after    *)
(* an upload they are the records with a restoration timestamp and a priority  *)
(* in P1..P5.                                                                  *)
C4_FilterIsConjunctionOfSelections ==
    Uploaded =>
        /\ Indexes(filtered_df) =
              {i - 1 : i \in {j \in 1..Len(Sheet) :
                  /\ strftime_bY(Sheet[j].Restored) \in selected_months
                  /\ Sheet[j].Priority \in selected_priorities}}
        /\ \A i \in 1..Len(filtered_df) : filtered_df[i] = df[filtered_df[i].index + 1]
        /\ \A i \in 1..Len(filtered_df), j \in 1..Len(filtered_df) :
              i < j => filtered_df[i].index < filtered_df[j].index
        /\ event = "upload" =>
              Indexes(filtered_df) =
                 {i - 1 : i \in {j \in 1..Len(Sheet) :
                     Sheet[j].Restored # NaT /\ Sheet[j].Priority \in ValidPriorities}}

C4_Witness ==
    /\ Uploaded /\ event = "months"
    /\ Len(df) = 2 /\ Indexes(filtered_df) = {1}
    /\ df[1].MonthYear = Jan2025Label /\ df[1].Priority = "P1"
    /\ selected_months = {Dec2025Label}

(* C5: with no month selected, no priority selected, or no record matching,   *)
(* the pass completes: the filtered set, the aggregates and the pivots are     *)
(* empty, and the full summaries and the workbook are produced.                *)
C5_EmptySelectionCompletes ==
    (Uploaded /\ (selected_months = {} \/ selected_priorities = {} \/ filtered_df = <<>>)) =>
        /\ filtered_df = <<>>
        /\ mtd_avg = <<>> /\ mtr_avg = <<>> /\ mtd_pivot = <<>> /\ mtr_pivot = <<>>
        /\ raised = "none"
        /\ mtd_summary_full # <<>> /\ mtr_summary_full # <<>>
        /\ output # <<>>

NullMonthRecords == {i \in 1..Len(Sheet) : Sheet[i].Restored = NaT}

GroupedMonths ==
    Range(Column(mtd_avg, "MonthYear")) \cup Range(Column(mtr_avg, "MonthYear"))
    \cup Range(Column(mtd_pivot, "MonthYear")) \cup Range(Column(mtr_pivot, "MonthYear"))
    \cup Range(Column(mtd_summary_full, "index")) \cup Range(Column(mtr_summary_full, "index"))

MainDataSheet == IF output = <<>> THEN <<>> ELSE output[1].MainData

UnknownPriorityRecords == {i \in 1..Len(Sheet) : Sheet[i].Priority \notin ValidPriorities}

Shows(d, i) ==
    \E k \in 1..Len(d) : d[k].index = i - 1 /\ d[k].Priority = Sheet[i].Priority

(* C7, as claimed: a record whose priority is outside P1..P5 is left out of   *)
(* the priority options, and the record with its original priority value is    *)
(* in the raw view and in the export of the first pass after the upload.       *)
C7_UnknownPriorityRetained ==
    (Uploaded /\ event = "upload") =>
        \A i \in UnknownPriorityRecords :
            /\ Sheet[i].Priority \notin Range(priorities)
            /\ Shows(shown_df, i)
            /\ output # <<>> => Shows(MainDataSheet, i)

(* C7, amended: a record whose priority is outside P1..P5 is left out of the  *)
(* priority options; its priority is null in the loaded table, where the       *)
(* record stays, and under no selection is the record in the raw view or in    *)
(* the export.                                                                 *)
C7_UnknownPriorityDropped ==
    Uploaded =>
        \A i \in UnknownPriorityRecords :
            /\ Sheet[i].Priority \notin Range(priorities) \cup selected_priorities
            /\ Range(priorities) \subseteq ValidPriorities
            /\ df[i].index = i - 1
            /\ df[i].Priority = NaNPriority
            /\ (i - 1) \notin Indexes(filtered_df)
            /\ (i - 1) \notin Indexes(shown_df)
            /\ (i - 1) \notin Indexes(MainDataSheet)

C7_Witness ==
    /\ Rendered /\ event = "upload"
    /\ Len(df) = 2
    /\ UnknownPriorityRecords = {1}
    /\ Sheet[1].Priority = "High"
    /\ Indexes(MainDataSheet) = {1}

MonthRows(summary) == SubSeq(summary, 1, Len(summary) - 1)

PairValues(m, p, metric) ==
    LET InPair(r) == r.MonthYear = m /\ r.Priority = p /\ r[metric] # NaN
    IN  Column(SelectSeq(filtered_df, InPair), metric)

PairHasRecords(m, p) ==
    \E i \in 1..Len(filtered_df) : filtered_df[i].MonthYear = m /\ filtered_df[i].Priority = p

TriadsAsClaimed(summary, metric) ==
    \A i \in 1..Len(MonthRows(summary)) :
        /\ DOMAIN summary[i].cells = ValidPriorities
        /\ \A p \in ValidPriorities :
            LET t  == summary[i].cells[p]
                vs == PairValues(summary[i].index, p, metric)
            IN  /\ DOMAIN t = {"COUNT", "SUM", "AVG"}
                /\ IF ~PairHasRecords(summary[i].index, p)
                   THEN t = [COUNT |-> <<0, 1>>, SUM |-> <<0, 1>>, AVG |-> <<0, 1>>]
                   ELSE /\ t.COUNT = <<Len(vs), 1>>
                        /\ t.SUM = RatSum(vs)
                        /\ Len(vs) > 0 =>
                              /\ t.AVG # NaN
                              /\ t.AVG[1] * t.SUM[2] * Len(vs) = t.SUM[1] * t.AVG[2]

(* C8: every month row of a full summary carries a (COUNT, SUM, AVG) triad    *)
(* for each of P1..P5; the triad of a (month, priority) pair with no filtered  *)
(* record is (0, 0.0, 0.0); otherwise COUNT is the number of non-null metric   *)
(* values of the pair, SUM their sum, and AVG = SUM / COUNT when COUNT > 0.    *)
C8_TriadPerPriority ==
    Rendered =>
        /\ TriadsAsClaimed(mtd_summary_full, "FinalMTD")
        /\ TriadsAsClaimed(mtr_summary_full, "FinalMTR")

ChronoKey(x) ==
    LET Calendar == <<"Jan","Feb","Mar","Apr","May","Jun","Jul","Aug","Sep","Oct","Nov","Dec">>
    IN  x.Y * 12 + CHOOSE i \in 1..12 : Calendar[i] = x.b

ChronologicalLabels(ls) ==
    \A i \in 1..Len(ls), j \in 1..Len(ls) : i < j => ChronoKey(ls[i]) < ChronoKey(ls[j])

PriorityNumber(p) == CHOOSE n \in 1..5 : <<"P1", "P2", "P3", "P4", "P5">>[n] = p

ChronologicalThenPriority(rows) ==
    \A i \in 1..Len(rows), j \in 1..Len(rows) :
        i < j =>
            \/ ChronoKey(rows[i].MonthYear) < ChronoKey(rows[j].MonthYear)
            \/ /\ rows[i].MonthYear = rows[j].MonthYear
               /\ PriorityNumber(rows[i].Priority) < PriorityNumber(rows[j].Priority)

(* C9: month buckets are in the order of their dates, not of their labels:    *)
(* the month options, the rows of both average summaries (by month, then by    *)
(* priority P1..P5), the rows of both pivots and the month rows of both full   *)
(* summaries.                                                                  *)
C9_MonthsChronological ==
    Uploaded =>
        /\ ChronologicalLabels(months)
        /\ ChronologicalThenPriority(mtd_avg)
        /\ ChronologicalThenPriority(mtr_avg)
        /\ ChronologicalLabels(Column(mtd_pivot, "MonthYear"))
        /\ ChronologicalLabels(Column(mtr_pivot, "MonthYear"))
        /\ raised = "none" =>
              /\ ChronologicalLabels(Column(MonthRows(mtd_summary_full), "index"))
              /\ ChronologicalLabels(Column(MonthRows(mtr_summary_full), "index"))

C9_Witness ==
    /\ Rendered
    /\ months = <<Jan2025Label, Dec2025Label>>
    /\ Column(mtd_avg, "MonthYear") \in {<<Jan2025Label, Dec2025Label>>} \cup
          {[i \in 1..10 |-> IF i <= 5 THEN Jan2025Label ELSE Dec2025Label]}
    /\ Column(mtr_pivot, "MonthYear") = <<Jan2025Label, Dec2025Label>>
    /\ Column(mtd_summary_full, "index") = <<Jan2025Label, Dec2025Label, AVGLabel>>

ColumnCells(summary, p, c) ==
    [i \in 1..Len(MonthRows(summary)) |-> summary[i].cells[p][c]]

NonNull(cs) == LET Present(x) == x # NaN IN SelectSeq(cs, Present)

HasOneAvgRowLast(summary) ==
    /\ Len(summary) >= 2
    /\ summary[Len(summary)].index = AVGLabel
    /\ \A i \in 1..Len(summary) - 1 : summary[i].index # AVGLabel

AvgRowIsMeanOfAllRows(summary) ==
    /\ HasOneAvgRowLast(summary)
    /\ \A p \in ValidPriorities, c \in {"COUNT", "SUM", "AVG"} :
        LET cs == ColumnCells(summary, p, c)
            a  == summary[Len(summary)].cells[p][c]
        IN  /\ \A i \in 1..Len(cs) : cs[i] # NaN
            /\ a # NaN
            /\ a[1] * RatSum(cs)[2] * Len(cs) = RatSum(cs)[1] * a[2]

AvgRowIsMeanOfNonNullCells(summary) ==
    /\ HasOneAvgRowLast(summary)
    /\ \A p \in ValidPriorities, c \in {"COUNT", "SUM", "AVG"} :
        LET cs == NonNull(ColumnCells(summary, p, c))
            a  == summary[Len(summary)].cells[p][c]
        IN  IF cs = <<>> THEN a = NaN
            ELSE /\ a # NaN
                 /\ a[1] * RatSum(cs)[2] * Len(cs) = RatSum(cs)[1] * a[2]

(* C10, as claimed: a full summary ends with exactly one row labelled "AVG",  *)
(* after all month rows, whose value in every column is the arithmetic mean of *)
(* that column over all month rows, zero-filled defaults included.             *)
C10_AvgRowMeansAllRows ==
    Rendered =>
        /\ AvgRowIsMeanOfAllRows(mtd_summary_full)
        /\ AvgRowIsMeanOfAllRows(mtr_summary_full)

(* C10, amended: a full summary ends with exactly one row labelled "AVG",     *)
(* after all month rows, whose value in every column is the arithmetic mean of *)
(* the non-null cells of that column over the month rows, zero-filled defaults *)
(* included, and null when the column has no non-null cell.                    *)
C10_AvgRowMeansNonNullCells ==
    Rendered =>
        /\ AvgRowIsMeanOfNonNullCells(mtd_summary_full)
        /\ AvgRowIsMeanOfNonNullCells(mtr_summary_full)

C10_Witness ==
    /\ Rendered /\ observed
    /\ Len(mtr_summary_full) = 3
    /\ ColumnCells(mtr_summary_full, "P3", "AVG") = <<NaN, <<0, 1>>>>
    /\ mtr_summary_full[3].cells["P3"].AVG = <<0, 1>>
    /\ mtr_summary_full[3].cells["P1"].COUNT = <<1, 2>>

====
